---------------------------- MODULE Spec2Model ----------------------------
(***************************************************************************)
(* onewaymirror: a TCP reflector.  main starts one listener per enabled    *)
(* address family and dispatches every accepted connection to handleConn,  *)
(* which dials the peer back on the listening port and starts two          *)
(* proxyBytes goroutines and, with logging enabled, one logSession         *)
(* goroutine.  Every goroutine is a process of this model; an action is    *)
(* the code between two blocking points of one goroutine.                  *)
(***************************************************************************)
EXTENDS Integers, Sequences, FiniteSets, TLC

(***************************************************************************)
(* Bounds of the model.                                                    *)
(***************************************************************************)
\* connections the environment makes to the listeners
MaxSessions == 2
\* bytes a peer sends on one connection
MaxBytes == 2

(***************************************************************************)
(* Bytes.  A byte is a number; the streams of the two legs and the texts   *)
(* the program sends are drawn from disjoint ranges.                       *)
(***************************************************************************)
NL == 10
BannerText == <<66>>
DiagText == <<85>>

Families == {4, 6}
Dirs == {"i", "o"}
Sessions == 1 .. MaxSessions

None == [nil |-> TRUE]

Min(a, b) == IF a < b THEN a ELSE b

IsPrefix(p, q) == Len(p) <= Len(q) /\ SubSeq(q, 1, Len(p)) = p

\* the bytes the peer sends on the leg direction d reads from
Stream(d, len) == [k \in 1 .. len |-> IF d = "i" THEN k ELSE 40 + k]

Other(d) == IF d = "i" THEN "o" ELSE "i"
\* the socket direction d reads from and the one it writes to:
\* proxyBytes(r, t, ..., in) and proxyBytes(t, r, ..., out)
SrcOf(d) == IF d = "i" THEN "r" ELSE "t"
DstOf(d) == IF d = "i" THEN "t" ELSE "r"

VARIABLES
    cfg,        \* the flags: no4, no6, nolog, banner, buflen
    lim,        \* what the environment does in this run (see Scenarios)
    exit,       \* "none" while the process runs, else why it ended
    mainpc,     \* main's position
    nlist,      \* main's n: listeners started
    lst,        \* per family, waitConn's position
    lconn,      \* per family, the connection waitConn is sending on its channel
    wd,         \* waitDead: pc and i
    nilh,       \* a handleConn(nil) goroutine has been started and not yet run
    naccepted,  \* connections accepted so far
    nhandled,   \* handleConn goroutines started for accepted connections
    hpc,        \* per session, handleConn's position
    conn,       \* per session, the inbound connection's addresses
    target,     \* per session, ta, the address dialled
    dials,      \* per session, calls of net.DialTCP
    diag,       \* per session, how the write of the dial diagnostic ended
    bsent,      \* per session, the banner loop's s
    wire,       \* per session and socket, the bytes the program wrote to it
    closes,     \* per session and socket, calls of Close
    chclosed,   \* per session and direction, the logging channel is closed
    px,         \* per session and direction, proxyBytes' locals
    lg,         \* per session, logSession's locals
    fs          \* the log directory: per file name, the records of the file

procvars == <<cfg, lim, exit, mainpc, nlist, lst, lconn, wd, nilh, naccepted, nhandled>>
sessvars == <<hpc, conn, target, dials, diag, bsent, wire, closes>>
relayvars == <<chclosed, px, lg, fs>>
vars == <<procvars, sessvars, relayvars>>

(***************************************************************************)
(* The flags and the environment.                                          *)
(***************************************************************************)
Flag(no4, no6, nolog, banner, buflen) ==
    [no4 |-> no4, no6 |-> no6, nolog |-> nolog, banner |-> banner, buflen |-> buflen]

\* the errors (*net.TCPConn).Read can return on an open socket: io.EOF, an
\* *net.OpError ending "connection reset by peer", any other *net.OpError, and
\* an error of another type
ReadErrors == {"eof", "reset", "opother", "unknown"}

\* What the environment does in a run: how many connections it makes
\* (sessions), from which addresses (peers), how many bytes a peer sends on
\* a connection (bytes), which
\* errors a socket read may return (rderr), and whether a socket write
\* (wfault), a dial (dfault), the file system (ffault), a bind (bfault) or
\* an accept (deaths) may fail.  Quiet is the environment in which nothing
\* fails and one peer connects, sends nothing and closes.
Quiet ==
    [sessions |-> 1, peers |-> {71}, bytes |-> 0, rderr |-> {"eof"}, wfault |-> FALSE,
     dfault |-> FALSE, ffault |-> FALSE, bfault |-> FALSE, deaths |-> FALSE]

\* main, "Append a newline to the banner if appropriate"
AppendNewlineNever(b) == b

\* "*banner += "\n"" when a banner is configured
AppendNewline(b) == IF Len(b) > 0 THEN b \o <<NL>> ELSE b

\* the banner handleConn is given
Banner == AppendNewline(cfg.banner)

\* logDir is nil with -nolog, and handleConn makes the channels only if not
Logging == ~cfg.nolog

\* addresses: the peer's IP and port, the mirror's IP and listening port
PeerPort == 5000
LocalIP == 9
ListenPort == 23
Conns == [rip : lim.peers, rport : {PeerPort}, lip : {LocalIP}, lport : {ListenPort}]

Running == exit = "none"

(***************************************************************************)
(* The runs TLC explores: a set of flags with an environment.              *)
(***************************************************************************)
Scenario(c, e) == [cfg |-> c, lim |-> e]

\* one session relaying without a log: every socket error
RelayRun ==
    Scenario(Flag(FALSE, TRUE, TRUE, BannerText, 2),
             [Quiet EXCEPT !.bytes = MaxBytes, !.rderr = ReadErrors, !.wfault = TRUE])

\* one session relaying with a log
LoggedRun ==
    Scenario(Flag(TRUE, FALSE, FALSE, <<>>, 2), [Quiet EXCEPT !.bytes = MaxBytes])

\* one session with a log on a failing file system
FileFaultRun ==
    Scenario(Flag(FALSE, TRUE, FALSE, BannerText \o <<NL>>, 1),
             [Quiet EXCEPT !.bytes = 1, !.ffault = TRUE])

\* both listeners, accepts that fail
DeathRun ==
    Scenario(Flag(FALSE, FALSE, TRUE, BannerText, 1), [Quiet EXCEPT !.deaths = TRUE])

\* several sessions from two peers, dials that fail
SessionsRun ==
    Scenario(Flag(TRUE, FALSE, TRUE, BannerText, 1),
             [Quiet EXCEPT !.sessions = MaxSessions, !.peers = {71, 72}, !.dfault = TRUE])

\* several sessions of one peer, each with a log, the peer sending a byte on
\* each leg and leaving the connections open
LoggedSessionsRun ==
    Scenario(Flag(FALSE, TRUE, FALSE, <<>>, 1),
             [Quiet EXCEPT !.sessions = MaxSessions, !.bytes = 1, !.rderr = {}])

\* startup with every combination of the flags -no4 and -no6, binds that fail
StartupRuns ==
    {Scenario(Flag(no4, no6, nolog, BannerText, 1),
              [Quiet EXCEPT !.sessions = 0, !.ffault = TRUE, !.bfault = TRUE]) :
        no4 \in BOOLEAN, no6 \in BOOLEAN, nolog \in BOOLEAN}

Scenarios ==
    {RelayRun, LoggedRun, FileFaultRun, DeathRun, SessionsRun, LoggedSessionsRun}
        \cup StartupRuns

Init ==
    /\ \E sc \in Scenarios : cfg = sc.cfg /\ lim = sc.lim
    /\ exit = "none"
    /\ mainpc = "mkdir"
    /\ nlist = 0
    /\ lst = [f \in Families |-> "off"]
    /\ lconn = [f \in Families |-> None]
    /\ wd = [pc |-> "off", i |-> 0]
    /\ nilh = FALSE
    /\ naccepted = 0
    /\ nhandled = 0
    /\ hpc = [s \in Sessions |-> "none"]
    /\ conn = [s \in Sessions |-> None]
    /\ target = [s \in Sessions |-> None]
    /\ dials = [s \in Sessions |-> 0]
    /\ diag = [s \in Sessions |-> "none"]
    /\ bsent = [s \in Sessions |-> 0]
    /\ wire = [s \in Sessions |-> [r |-> <<>>, t |-> <<>>]]
    /\ closes = [s \in Sessions |-> [r |-> 0, t |-> 0]]
    /\ chclosed = [s \in Sessions |-> [d \in Dirs |-> FALSE]]
    /\ px = [s \in Sessions |-> [d \in Dirs |->
                [pc |-> "none", buf |-> <<>>, n |-> 0, start |-> 0,
                 read |-> 0, written |-> 0, why |-> "none", werr |-> FALSE]]]
    /\ lg = [s \in Sessions |->
                [pc |-> "none", f |-> "nil", iclosed |-> FALSE, oclosed |-> FALSE,
                 d |-> "i", length |-> 0, snap |-> <<>>, ioerr |-> FALSE,
                 name |-> None]]
    /\ fs = <<>>

(***************************************************************************)
(* main: startup.                                                          *)
(***************************************************************************)
\* os.MkdirAll(*logDir) unless -nolog; log.Fatalf when it fails
MainMkdir ==
    /\ Running /\ mainpc = "mkdir"
    /\ \E ok \in IF cfg.nolog \/ ~lim.ffault THEN {TRUE} ELSE BOOLEAN :
          IF ok THEN mainpc' = "flags" /\ exit' = exit
                ELSE mainpc' = mainpc /\ exit' = "MkdirFatal"
    /\ UNCHANGED <<cfg, lim, nlist, lst, lconn, wd, nilh, naccepted, nhandled>>
    /\ UNCHANGED <<sessvars, relayvars>>

\* on to the listeners whatever the flags
MainFlagsUnchecked ==
    /\ Running /\ mainpc = "flags"
    /\ mainpc' = "listen4" /\ exit' = exit
    /\ UNCHANGED <<cfg, lim, nlist, lst, lconn, wd, nilh, naccepted, nhandled>>
    /\ UNCHANGED <<sessvars, relayvars>>

\* "if *disable4 && *disable6 { log.Fatalf(...) }"
MainFlags ==
    /\ Running /\ mainpc = "flags"
    /\ IF cfg.no4 /\ cfg.no6
          THEN mainpc' = mainpc /\ exit' = "BothDisabled"
          ELSE mainpc' = "listen4" /\ exit' = exit
    /\ UNCHANGED <<cfg, lim, nlist, lst, lconn, wd, nilh, naccepted, nhandled>>
    /\ UNCHANGED <<sessvars, relayvars>>

\* whether family f is disabled by its flag
Disabled(f) == IF f = 4 THEN cfg.no4 ELSE cfg.no6

\* listener(t, addr): log.Fatalf on a resolve or bind failure, else the listener
ListenerExit(bound) == IF bound THEN "none" ELSE "ListenFatal"

\* "if !*disable4 { l4 = listener(...); if l4 != nil { n++; go waitConn } }"
MainListen(f) ==
    /\ Running /\ mainpc = (IF f = 4 THEN "listen4" ELSE "listen6")
    /\ IF Disabled(f)
          THEN /\ mainpc' = (IF f = 4 THEN "listen6" ELSE "checkany")
               /\ UNCHANGED <<exit, nlist, lst>>
          ELSE \E bound \in IF lim.bfault THEN BOOLEAN ELSE {TRUE} :
                  /\ exit' = ListenerExit(bound)
                  /\ IF exit' = "none"
                        THEN /\ mainpc' = (IF f = 4 THEN "listen6" ELSE "checkany")
                             /\ nlist' = nlist + 1
                             /\ lst' = [lst EXCEPT ![f] = "accept"]
                        ELSE UNCHANGED <<mainpc, nlist, lst>>
    /\ UNCHANGED <<cfg, lim, lconn, wd, nilh, naccepted, nhandled>>
    /\ UNCHANGED <<sessvars, relayvars>>

\* "if nil == l4 && nil == l6 { log.Fatalf }", then "go waitDead(n, dead, allDead)"
MainStart ==
    /\ Running /\ mainpc = "checkany"
    /\ IF \A f \in Families : lst[f] = "off"
          THEN exit' = "NoListeners" /\ UNCHANGED <<mainpc, wd>>
          ELSE /\ mainpc' = "select"
               /\ wd' = [pc |-> IF nlist = 0 THEN "send" ELSE "recv", i |-> 0]
               /\ exit' = exit
    /\ UNCHANGED <<cfg, lim, nlist, lst, lconn, nilh, naccepted, nhandled>>
    /\ UNCHANGED <<sessvars, relayvars>>

(***************************************************************************)
(* waitConn and waitDead.                                                  *)
(***************************************************************************)
\* l.AcceptTCP() returns a connection: waitConn goes on to "ch <- c"
Accept(f) ==
    /\ Running /\ lst[f] = "accept"
    /\ naccepted < lim.sessions
    /\ \E c \in Conns :
          /\ lconn' = [lconn EXCEPT ![f] = c]
          /\ lst' = [lst EXCEPT ![f] = "send"]
    /\ naccepted' = naccepted + 1
    /\ UNCHANGED <<cfg, lim, exit, mainpc, nlist, wd, nilh, nhandled>>
    /\ UNCHANGED <<sessvars, relayvars>>

\* l.AcceptTCP() fails: close(ch), then waitConn blocks in "dead <- 1"
AcceptFail(f) ==
    /\ Running /\ lst[f] = "accept" /\ lim.deaths
    /\ lst' = [lst EXCEPT ![f] = "dying"]
    /\ UNCHANGED <<cfg, lim, exit, mainpc, nlist, lconn, wd, nilh, naccepted, nhandled>>
    /\ UNCHANGED <<sessvars, relayvars>>

\* the channel of family f is closed
ChClosed(f) == lst[f] \in {"dying", "dead"}

\* "dead <- 1" meets waitDead's "<-in"; after n of them waitDead goes on to "out <- 1"
SendDead(f) ==
    /\ Running /\ lst[f] = "dying" /\ wd.pc = "recv"
    /\ lst' = [lst EXCEPT ![f] = "dead"]
    /\ wd' = [pc |-> IF wd.i + 1 < nlist THEN "recv" ELSE "send", i |-> wd.i + 1]
    /\ UNCHANGED <<cfg, lim, exit, mainpc, nlist, lconn, nilh, naccepted, nhandled>>
    /\ UNCHANGED <<sessvars, relayvars>>

(***************************************************************************)
(* main: the select loop.                                                  *)
(***************************************************************************)
\* where handleConn starts: the banner loop runs only for a non-empty banner
HandlerEntry == IF Len(Banner) > 0 THEN "banner" ELSE "dial"

\* "case c := <-ch: go handleConn(c, ...)" with a connection waitConn sends
MainRecvConn(f) ==
    /\ Running /\ mainpc = "select" /\ lst[f] = "send"
    /\ LET s == nhandled + 1 IN
          /\ hpc' = [hpc EXCEPT ![s] = HandlerEntry]
          /\ conn' = [conn EXCEPT ![s] = lconn[f]]
    /\ nhandled' = nhandled + 1
    /\ lst' = [lst EXCEPT ![f] = "accept"]
    /\ lconn' = [lconn EXCEPT ![f] = None]
    /\ UNCHANGED <<cfg, lim, exit, mainpc, nlist, wd, nilh, naccepted>>
    /\ UNCHANGED <<target, dials, diag, bsent, wire, closes, relayvars>>

\* "case c := <-ch" on a closed channel: the receive yields nil at once and
\* main starts handleConn(nil, ...)
MainRecvClosed(f) ==
    /\ Running /\ mainpc = "select" /\ ChClosed(f)
    /\ nilh' = TRUE
    /\ UNCHANGED <<cfg, lim, exit, mainpc, nlist, lst, lconn, wd, naccepted, nhandled>>
    /\ UNCHANGED <<sessvars, relayvars>>

\* handleConn(nil): "defer r.Close()" evaluates the promoted method value
\* r.Close, that is &r.conn, through the nil pointer r: a run-time panic
NilHandler ==
    /\ Running /\ nilh
    /\ exit' = "NilConnPanic"
    /\ UNCHANGED <<cfg, lim, mainpc, nlist, lst, lconn, wd, nilh, naccepted, nhandled>>
    /\ UNCHANGED <<sessvars, relayvars>>

\* "case <-allDead: log.Fatalf("All listeners have terminated")"
MainRecvAllDead ==
    /\ Running /\ mainpc = "select" /\ wd.pc = "send"
    /\ exit' = "AllDead"
    /\ wd' = [wd EXCEPT !.pc = "done"]
    /\ UNCHANGED <<cfg, lim, mainpc, nlist, lst, lconn, nilh, naccepted, nhandled>>
    /\ UNCHANGED <<sessvars, relayvars>>

(***************************************************************************)
(* What a socket call can return.                                          *)
(***************************************************************************)
\* (*net.TCPConn).Write of len bytes: all of them and no error, or fewer and
\* an error, temporary or not
WriteOutcomes(len) ==
    {[n |-> len, err |-> "nil"]} \cup
    IF lim.wfault THEN [n : 0 .. len - 1, err : {"temp", "fatal"}] ELSE {}

\* Write on a socket the program has closed: "use of closed network connection"
ClosedWrite == [n |-> 0, err |-> "fatal"]

\* time.Now() as handleConn formats it for the file name, read only when
\* logdir is not nil: the first session's instant, or a later one
Stamps(s) == IF Logging /\ s > 1 THEN {1, 2} ELSE {1}

(***************************************************************************)
(* handleConn.                                                             *)
(***************************************************************************)
\* the banner loop: "n, err := r.Write([]byte(banner))" writes the banner from
\* its first byte, returns on an error, else "s += n" until s reaches l
HandlerBannerIgnoreError(s) ==
    /\ Running /\ hpc[s] = "banner"
    /\ \E w \in WriteOutcomes(Len(Banner)) :
          /\ wire' = [wire EXCEPT ![s].r = @ \o SubSeq(Banner, 1, w.n)]
          /\ IF w.err # "nil"
                THEN hpc' = [hpc EXCEPT ![s] = "dial"] /\ bsent' = bsent
                ELSE /\ bsent' = [bsent EXCEPT ![s] = @ + w.n]
                     /\ hpc' = [hpc EXCEPT ![s] =
                                   IF bsent'[s] < Len(Banner) THEN "banner" ELSE "dial"]
    /\ UNCHANGED <<procvars, conn, target, dials, diag, closes, relayvars>>

\* the banner loop: "r.Write([]byte(banner))" until s reaches len(banner), and
\* return on a write error
HandlerBanner(s) ==
    /\ Running /\ hpc[s] = "banner"
    /\ \E w \in WriteOutcomes(Len(Banner)) :
          /\ wire' = [wire EXCEPT ![s].r = @ \o SubSeq(Banner, 1, w.n)]
          /\ IF w.err # "nil"
                THEN hpc' = [hpc EXCEPT ![s] = "closeR"] /\ bsent' = bsent
                ELSE /\ bsent' = [bsent EXCEPT ![s] = @ + w.n]
                     /\ hpc' = [hpc EXCEPT ![s] =
                                   IF bsent'[s] < Len(Banner) THEN "banner" ELSE "dial"]
    /\ UNCHANGED <<procvars, conn, target, dials, diag, closes, relayvars>>

\* the addresses taken from the wrong ends
TargetAddrSwapped(c) == [ip |-> c.lip, port |-> c.rport]

\* "ta.IP = rad.IP" from r.RemoteAddr(), "ta.Port = lad.Port" from r.LocalAddr()
TargetAddr(c) == [ip |-> c.rip, port |-> c.lport]

\* "Unable to connect back to <ta>" and a newline
DiagMsg(ta) == DiagText \o <<ta.ip, ta.port>> \o <<NL>>

\* a fresh read buffer: make([]byte, buflen)
NewBuf == [k \in 1 .. cfg.buflen |-> 0]

\* the goroutines handleConn starts after a successful dial: logSession if
\* logdir is not nil, and the two proxyBytes
StartLogger(s, ts) ==
    IF Logging
       THEN [lg[s] EXCEPT !.pc = "open", !.name = <<target'[s].ip, ts>>]
       ELSE lg[s]

StartProxy(s, d) == [px[s][d] EXCEPT !.pc = "read", !.buf = NewBuf]

\* net.DialTCP("tcp", nil, ta).  On an error handleConn goes on to tell the
\* peer; else it registers its deferred calls, starts the goroutines and
\* blocks in "<-done"
HandlerDial(s) ==
    /\ Running /\ hpc[s] = "dial"
    /\ target' = [target EXCEPT ![s] = TargetAddr(conn[s])]
    /\ dials' = [dials EXCEPT ![s] = @ + 1]
    /\ \E ok \in IF lim.dfault THEN BOOLEAN ELSE {TRUE} :
          IF ok
             THEN /\ hpc' = [hpc EXCEPT ![s] = "wait"]
                  /\ \E ts \in Stamps(s) : lg' = [lg EXCEPT ![s] = StartLogger(s, ts)]
                  /\ px' = [px EXCEPT ![s] = [d \in Dirs |-> StartProxy(s, d)]]
                  /\ diag' = diag
             ELSE /\ hpc' = [hpc EXCEPT ![s] = "diag"]
                  /\ diag' = [diag EXCEPT ![s] = "due"]
                  /\ UNCHANGED <<lg, px>>
    /\ UNCHANGED <<procvars, conn, bsent, wire, closes, chclosed, fs>>

\* the diagnostic, and back to the dial
HandlerDiagRetry(s) ==
    /\ Running /\ hpc[s] = "diag"
    /\ \E w \in WriteOutcomes(Len(DiagMsg(target[s]))) :
          /\ wire' = [wire EXCEPT ![s].r = @ \o SubSeq(DiagMsg(target[s]), 1, w.n)]
          /\ diag' = [diag EXCEPT ![s] = IF w.err = "nil" THEN "sent" ELSE "failed"]
    /\ hpc' = [hpc EXCEPT ![s] = "dial"]
    /\ UNCHANGED <<procvars, conn, target, dials, bsent, closes, relayvars>>

\* the dial failed: "r.Write([]byte(e+"\n"))", its error only logged, and return
HandlerDiag(s) ==
    /\ Running /\ hpc[s] = "diag"
    /\ \E w \in WriteOutcomes(Len(DiagMsg(target[s]))) :
          /\ wire' = [wire EXCEPT ![s].r = @ \o SubSeq(DiagMsg(target[s]), 1, w.n)]
          /\ diag' = [diag EXCEPT ![s] = IF w.err = "nil" THEN "sent" ELSE "failed"]
    /\ hpc' = [hpc EXCEPT ![s] = "closeR"]
    /\ UNCHANGED <<procvars, conn, target, dials, bsent, closes, relayvars>>

\* the deferred calls run last registered first: close(out), close(in) (both
\* only with logging), t.Close(), r.Close()
FirstDeferred == IF Logging THEN "closeOut" ELSE "closeT"

\* what proxyBytes does after its "done <- ..." is received: "break" leaves the
\* read loop after a read error, and only the write loop after a write error
AfterDone(why) == IF why = "write" THEN "read" ELSE "end"

\* "<-done" meets the "done <- src" or "done <- dst" of direction d
HandlerRecvDone(s, d) ==
    /\ Running /\ hpc[s] = "wait" /\ px[s][d].pc = "done"
    /\ hpc' = [hpc EXCEPT ![s] = FirstDeferred]
    /\ px' = [px EXCEPT ![s][d].pc = AfterDone(px[s][d].why)]
    /\ UNCHANGED <<procvars, conn, target, dials, diag, bsent, wire, closes>>
    /\ UNCHANGED <<chclosed, lg, fs>>

\* deferred close(out), then close(in)
HandlerCloseChan(s) ==
    /\ Running /\ hpc[s] \in {"closeOut", "closeIn"}
    /\ LET d == IF hpc[s] = "closeOut" THEN "o" ELSE "i" IN
          chclosed' = [chclosed EXCEPT ![s][d] = TRUE]
    /\ hpc' = [hpc EXCEPT ![s] = IF @ = "closeOut" THEN "closeIn" ELSE "closeT"]
    /\ UNCHANGED <<procvars, conn, target, dials, diag, bsent, wire, closes>>
    /\ UNCHANGED <<px, lg, fs>>

\* the deferred calls with a second r.Close() beside t.Close()
HandlerCloseSockTwice(s) ==
    /\ Running /\ hpc[s] \in {"closeT", "closeR"}
    /\ closes' = [closes EXCEPT ![s] =
                     IF hpc[s] = "closeT" THEN [r |-> @.r + 1, t |-> @.t + 1]
                                          ELSE [r |-> @.r + 1, t |-> @.t]]
    /\ hpc' = [hpc EXCEPT ![s] = IF @ = "closeT" THEN "closeR" ELSE "returned"]
    /\ UNCHANGED <<procvars, conn, target, dials, diag, bsent, wire, relayvars>>

\* deferred t.Close(), then r.Close(), and handleConn has returned
HandlerCloseSock(s) ==
    /\ Running /\ hpc[s] \in {"closeT", "closeR"}
    /\ LET k == IF hpc[s] = "closeT" THEN "t" ELSE "r" IN
          closes' = [closes EXCEPT ![s][k] = @ + 1]
    /\ hpc' = [hpc EXCEPT ![s] = IF @ = "closeT" THEN "closeR" ELSE "returned"]
    /\ UNCHANGED <<procvars, conn, target, dials, diag, bsent, wire, relayvars>>

(***************************************************************************)
(* proxyBytes(src, dst, done, buflen, cstr, logc), one per direction d.    *)
(***************************************************************************)
\* the bytes direction d of session s has read from its source so far
ReadSeq(s, d) == SubSeq(Stream(d, lim.bytes), 1, px[s][d].read)

\* src.Read(buf) puts n bytes at the front of buf
Overwrite(buf, bytes) ==
    [k \in 1 .. Len(buf) |-> IF k <= Len(bytes) THEN bytes[k] ELSE buf[k]]

\* after a read error: io.EOF and an error that is no *net.OpError report on
\* done; every *net.OpError ends the direction without a report
AfterReadError(e) == IF e \in {"eof", "unknown"} THEN "done" ELSE "end"

\* after a successful read: "if logc != nil { logc <- packet{buf, n} }"
AfterRead == IF Logging THEN "log" ELSE "write"

\* "n, err := src.Read(buf)" returns n bytes
ProxyRead(s, d) ==
    /\ Running /\ px[s][d].pc = "read"
    /\ closes[s][SrcOf(d)] = 0
    /\ \E n \in 1 .. Min(cfg.buflen, lim.bytes - px[s][d].read) :
          LET p == px[s][d]
              bytes == SubSeq(Stream(d, lim.bytes), p.read + 1, p.read + n) IN
          px' = [px EXCEPT ![s][d] =
                    [p EXCEPT !.buf = Overwrite(p.buf, bytes), !.n = n,
                              !.start = 0, !.read = p.read + n, !.pc = AfterRead]]
    /\ UNCHANGED <<procvars, sessvars, chclosed, lg, fs>>

\* "n, err := src.Read(buf)" returns an error: "use of closed network
\* connection" once the program has closed src, else what the peer causes
ProxyReadError(s, d) ==
    /\ Running /\ px[s][d].pc = "read"
    /\ \E e \in IF closes[s][SrcOf(d)] > 0 THEN {"closed"} ELSE lim.rderr :
          px' = [px EXCEPT ![s][d].pc = AfterReadError(e), ![s][d].why = e]
    /\ UNCHANGED <<procvars, sessvars, chclosed, lg, fs>>

\* a logSession that receives only while it has an open file
ProxyLogNeedsFile(s, d) ==
    /\ Running /\ px[s][d].pc = "log" /\ ~chclosed[s][d]
    /\ lg[s].pc = "select" /\ lg[s].f = "open"
    /\ px' = [px EXCEPT ![s][d].pc = "write"]
    /\ lg' = [lg EXCEPT ![s] =
                 [@ EXCEPT !.pc = "meta", !.d = d, !.length = px[s][d].n,
                           !.snap = SubSeq(px[s][d].buf, 1, px[s][d].n)]]
    /\ UNCHANGED <<procvars, sessvars, chclosed, fs>>

\* "logc <- packet{buf, n}" meets logSession's select: the packet holds the
\* slice buf itself, not a copy.  With no file (f == nil) logPacket returns at
\* once and logSession is back at its select
ProxyLog(s, d) ==
    /\ Running /\ px[s][d].pc = "log" /\ ~chclosed[s][d]
    /\ lg[s].pc = "select"
    /\ px' = [px EXCEPT ![s][d].pc = "write"]
    /\ lg' = [lg EXCEPT ![s] =
                 IF @.f = "nil" THEN @
                 ELSE [@ EXCEPT !.pc = "meta", !.d = d, !.length = px[s][d].n,
                                !.snap = SubSeq(px[s][d].buf, 1, px[s][d].n)]]
    /\ UNCHANGED <<procvars, sessvars, chclosed, fs>>

\* "logc <- packet{buf, n}" on a channel handleConn has closed: a run-time
\* panic, "send on closed channel", which ends the process
ProxyLogClosed(s, d) ==
    /\ Running /\ px[s][d].pc = "log" /\ chclosed[s][d]
    /\ exit' = "SendOnClosedChannel"
    /\ UNCHANGED <<cfg, lim, mainpc, nlist, lst, lconn, wd, nilh, naccepted, nhandled>>
    /\ UNCHANGED <<sessvars, relayvars>>

\* the write loop without its "start += n": a short write is followed by a
\* write of the whole chunk
AfterWriteNoAdvance(p, w) ==
    IF w.err = "fatal"
       THEN [p EXCEPT !.written = @ + w.n, !.pc = "done", !.why = "write",
                      !.werr = TRUE]
       ELSE [p EXCEPT !.written = @ + w.n,
                      !.pc = IF p.start + w.n < p.n THEN "write" ELSE "read"]

\* after "n, err := dst.Write(buf[start:end])": a non-temporary error sends on
\* done and breaks out of the write loop with start as it was; else
\* "start += n" and the loop goes on while start < end
AfterWrite(p, w) ==
    IF w.err = "fatal"
       THEN [p EXCEPT !.written = @ + w.n, !.pc = "done", !.why = "write",
                      !.werr = TRUE]
       ELSE [p EXCEPT !.written = @ + w.n, !.start = @ + w.n,
                      !.pc = IF p.start + w.n < p.n THEN "write" ELSE "read"]

\* one pass of the write loop
ProxyWrite(s, d) ==
    /\ Running /\ px[s][d].pc = "write"
    /\ LET p == px[s][d]
           chunk == SubSeq(p.buf, p.start + 1, p.n) IN
       \E w \in IF closes[s][DstOf(d)] > 0 THEN {ClosedWrite}
                ELSE WriteOutcomes(Len(chunk)) :
          /\ wire' = [wire EXCEPT ![s][DstOf(d)] = @ \o SubSeq(chunk, 1, w.n)]
          /\ px' = [px EXCEPT ![s][d] = AfterWrite(p, w)]
    /\ UNCHANGED <<procvars, hpc, conn, target, dials, diag, bsent, closes>>
    /\ UNCHANGED <<chclosed, lg, fs>>

(***************************************************************************)
(* logSession, openLogFile and logPacket.                                  *)
(***************************************************************************)
\* openLogFile: os.MkdirAll fails: log.Fatalf
LogMkdirFail(s) ==
    /\ Running /\ lg[s].pc = "open" /\ lim.ffault
    /\ exit' = "LogDirFatal"
    /\ UNCHANGED <<cfg, lim, mainpc, nlist, lst, lconn, wd, nilh, naccepted, nhandled>>
    /\ UNCHANGED <<sessvars, relayvars>>

\* os.OpenFile without O_EXCL
OpenResultsNoExcl(name) == IF lim.ffault THEN BOOLEAN ELSE {TRUE}

\* os.OpenFile with O_CREATE|O_EXCL fails on a file that exists
OpenResults(name) ==
    IF name \in DOMAIN fs THEN {FALSE}
    ELSE IF lim.ffault THEN BOOLEAN ELSE {TRUE}

\* openLogFile: the file, or nil when it exists or cannot be made
LogOpen(s) ==
    /\ Running /\ lg[s].pc = "open"
    /\ \E ok \in OpenResults(lg[s].name) :
          /\ lg' = [lg EXCEPT ![s].pc = "select",
                              ![s].f = IF ok THEN "open" ELSE "nil"]
          /\ fs' = IF ok THEN (lg[s].name :> <<>>) @@ fs ELSE fs
    /\ UNCHANGED <<procvars, sessvars, chclosed, px>>

\* the loop ending with one channel closed
AfterClosedEither(l) ==
    IF l.iclosed \/ l.oclosed
       THEN [l EXCEPT !.pc = "done", !.f = IF @ = "open" THEN "closed" ELSE @]
       ELSE l

\* after the select found a channel closed: with both closed the loop ends
\* and the deferred olog.Close() runs
AfterClosed(l) ==
    IF l.iclosed /\ l.oclosed
       THEN [l EXCEPT !.pc = "done", !.f = IF @ = "open" THEN "closed" ELSE @]
       ELSE l

\* the select finds channel d closed: "iclosed = true" or "oclosed = true"
LogRecvClosed(s, d) ==
    /\ Running /\ lg[s].pc = "select" /\ chclosed[s][d]
    /\ lg' = [lg EXCEPT ![s] =
                 AfterClosed(IF d = "i" THEN [@ EXCEPT !.iclosed = TRUE]
                                        ELSE [@ EXCEPT !.oclosed = TRUE])]
    /\ UNCHANGED <<procvars, sessvars, chclosed, px, fs>>

\* a write of len bytes to the file: all of them, or fewer and an error; on
\* a closed file nothing and an error
FileWrites(f, len) ==
    IF f = "open"
       THEN {[n |-> len, ok |-> TRUE]} \cup
            (IF lim.ffault THEN [n : 0 .. len - 1, ok : {FALSE}] ELSE {})
       ELSE {[n |-> 0, ok |-> FALSE]}

\* the direction character of logPacket: 'i' if d, else 'o'
DirChar(d) == IF d = "i" THEN "i" ELSE "o"

\* what f.Write(p.data[0:p.length]) can find in the slice: p.data is the
\* proxy's buf, which the proxy's next src.Read may be overwriting, so each
\* byte is the one the packet was sent with or the one in buf now
PayloadViews(snap, buf) ==
    {v \in [1 .. Len(snap) -> {snap[k] : k \in 1 .. Len(snap)} \cup
                              {buf[k] : k \in 1 .. Len(snap)}] :
        \A k \in 1 .. Len(snap) : v[k] \in {snap[k], buf[k]}}

\* the record logPacket leaves in the file: the metadata line (one item of
\* the model: written whole or not at all) and as much of the payload as was
\* written; the session is noted beside it
Record(s, d, length, data) ==
    [dc |-> DirChar(d), length |-> length, data |-> data, by |-> s]

\* logPacket(olog, p, d, t): f.Write of the metadata, f.Write of the payload,
\* each followed by f.Close() on an error
LogPacket(s) ==
    /\ Running /\ lg[s].pc = "meta"
    /\ \E m \in FileWrites(lg[s].f, 1) :
       \E v \in PayloadViews(lg[s].snap, px[s][lg[s].d].buf) :
       \E w \in FileWrites(IF m.ok THEN lg[s].f ELSE "closed", lg[s].length) :
          /\ fs' = IF m.ok
                      THEN [fs EXCEPT ![lg[s].name] =
                              Append(@, Record(s, lg[s].d, lg[s].length, SubSeq(v, 1, w.n)))]
                      ELSE fs
          /\ lg' = [lg EXCEPT ![s].pc = "select", ![s].snap = <<>>,
                              ![s].f = IF m.ok /\ w.ok THEN @ ELSE "closed",
                              ![s].ioerr = @ \/ ~m.ok \/ ~w.ok]
    /\ UNCHANGED <<procvars, sessvars, chclosed, px>>

(***************************************************************************)
(* The program.                                                            *)
(***************************************************************************)
Next ==
    \/ MainMkdir
    \/ MainFlags
    \/ \E f \in Families : MainListen(f)
    \/ MainStart
    \/ \E f \in Families : Accept(f)
    \/ \E f \in Families : AcceptFail(f)
    \/ \E f \in Families : SendDead(f)
    \/ \E f \in Families : MainRecvConn(f)
    \/ \E f \in Families : MainRecvClosed(f)
    \/ NilHandler
    \/ MainRecvAllDead
    \/ \E s \in Sessions : HandlerBanner(s)
    \/ \E s \in Sessions : HandlerDial(s)
    \/ \E s \in Sessions : HandlerDiag(s)
    \/ \E s \in Sessions, d \in Dirs : HandlerRecvDone(s, d)
    \/ \E s \in Sessions : HandlerCloseChan(s)
    \/ \E s \in Sessions : HandlerCloseSock(s)
    \/ \E s \in Sessions, d \in Dirs : ProxyRead(s, d)
    \/ \E s \in Sessions, d \in Dirs : ProxyReadError(s, d)
    \/ \E s \in Sessions, d \in Dirs : ProxyLog(s, d)
    \/ \E s \in Sessions, d \in Dirs : ProxyLogClosed(s, d)
    \/ \E s \in Sessions, d \in Dirs : ProxyWrite(s, d)
    \/ \E s \in Sessions : LogMkdirFail(s)
    \/ \E s \in Sessions : LogOpen(s)
    \/ \E s \in Sessions, d \in Dirs : LogRecvClosed(s, d)
    \/ \E s \in Sessions : LogPacket(s)

Spec == Init /\ [][Next]_vars

\* a goroutine that can run does run, sooner or later
FairSpec == Spec /\ WF_vars(Next)

(***************************************************************************)
(* What the claims speak of.                                               *)
(***************************************************************************)
\* handleConn of session s has called net.DialTCP
Dialled(s) == dials[s] > 0

\* the dial of session s failed
DialFailed(s) == diag[s] # "none"

\* proxyBytes of direction d of session s has been started
Started(s, d) == px[s][d].pc # "none"

\* the bytes direction d of session s has written to its destination: all
\* that is on the connect-back socket, and what follows the banner on the
\* inbound one
Written(s, d) ==
    IF d = "i" THEN wire[s].t
    ELSE SubSeq(wire[s].r, Len(Banner) + 1, Len(wire[s].r))

\* direction d is not between a read and the end of that chunk's write loop
ChunkDone(s, d) == px[s][d].pc \notin {"log", "write"}

(***************************************************************************)
(* C1.  The address handleConn dials has the inbound connection's remote   *)
(* IP and its local (listening) port, and neither its local IP nor its     *)
(* remote port.                                                            *)
(***************************************************************************)
C1_ConnectBackTarget ==
    \A s \in Sessions :
        Dialled(s) =>
            /\ target[s].ip = conn[s].rip
            /\ target[s].port = conn[s].lport
            /\ target[s].ip # conn[s].lip
            /\ target[s].port # conn[s].rport

\* a session whose dial succeeded
C1_Witness == \E s \in Sessions : Dialled(s) /\ hpc[s] = "wait" /\ conn[s].rip = 72

RECURSIVE Payloads(_, _)
\* the payloads of the records of recs tagged dc, concatenated in file order
Payloads(recs, dc) ==
    IF recs = <<>> THEN <<>>
    ELSE (IF Head(recs).dc = dc THEN Head(recs).data ELSE <<>>)
            \o Payloads(Tail(recs), dc)

\* session s has made its replay file and no write to it has failed
LogIntact(s) == lg[s].f # "nil" /\ ~lg[s].ioerr

\* no chunk of direction d is on its way into the file: none waits to be
\* handed to the logger and the logger holds none
LogSettled(s, d) == px[s][d].pc # "log" /\ ~(lg[s].pc = "meta" /\ lg[s].d = d)

(***************************************************************************)
(* C3.  With logging and no file error, the payloads of the i-tagged       *)
(* records of a session's file, concatenated in file order, are the bytes  *)
(* the inbound direction read, and those of the o-tagged records the bytes *)
(* the connect-back direction read: at every moment a prefix of them, and  *)
(* all of them once no chunk is on its way into the file.                  *)
(***************************************************************************)
C3_ReplayRoundTrip ==
    \A s \in Sessions, d \in Dirs :
        LogIntact(s) =>
            LET logged == Payloads(fs[lg[s].name], DirChar(d)) IN
            /\ IsPrefix(logged, ReadSeq(s, d))
            /\ LogSettled(s, d) => logged = ReadSeq(s, d)

(***************************************************************************)
(* C4.  Once a direction of a session has ended, or has stopped to report  *)
(* on done, handleConn eventually closes both sockets of the session       *)
(* (unless the process ends first).                                        *)
(***************************************************************************)
C4_EndClosesBothSockets ==
    \A s \in Sessions, d \in Dirs :
        (px[s][d].pc \in {"end", "done"})
            ~> ((closes[s].r > 0 /\ closes[s].t > 0) \/ exit # "none")

(***************************************************************************)
(* C5.  The program closes each socket of a session at most once.          *)
(***************************************************************************)
C5_SocketsClosedAtMostOnce ==
    \A s \in Sessions : closes[s].r <= 1 /\ closes[s].t <= 1

\* handleConn has returned after the report of one direction, both sockets
\* closed, while the other direction is still reporting
C5_Witness ==
    \E s \in Sessions, d \in Dirs :
        /\ hpc[s] = "returned" /\ closes[s].r = 1 /\ closes[s].t = 1
        /\ px[s][d].pc = "done" /\ px[s][Other(d)].pc = "end"

(***************************************************************************)
(* The listeners.                                                          *)
(***************************************************************************)
\* family f has a listener
ListenerStarted(f) == lst[f] # "off"

\* the accept of the listener of family f has failed
ListenerFailed(f) == lst[f] \in {"dying", "dead"}

\* main has reached its select loop
StartedUp == mainpc = "select"

(***************************************************************************)
(* C6.  After startup nothing that happens in a session ends the process:  *)
(* while no listener has failed the process runs.  (The failure to make    *)
(* the log directory of a session is left aside: openLogFile ends the      *)
(* process on it with log.Fatalf.)                                         *)
(***************************************************************************)
C6_SessionsNeverEndProcess ==
    (StartedUp /\ \A f \in Families : ~ListenerFailed(f))
        => exit \in {"none", "LogDirFatal"}

(***************************************************************************)
(* C7.  Once every started listener has failed, under fair scheduling the  *)
(* process eventually ends with "All listeners have terminated".           *)
(***************************************************************************)
C7_AllDeadEndsFatal ==
    (StartedUp /\ \A f \in Families : ListenerStarted(f) => ListenerFailed(f))
        ~> (exit = "AllDead")

(***************************************************************************)
(* C8.  A session whose dial has failed has dialled once, has no proxy     *)
(* direction and no logger and no connect-back socket to close; the        *)
(* diagnostic, when its write succeeds, follows the banner on the inbound  *)
(* connection, which is closed once by the time handleConn returns; and    *)
(* the steps of such a session change nothing of main, of the listeners or *)
(* of another session.                                                     *)
(***************************************************************************)
SessionState(s) ==
    <<hpc[s], conn[s], target[s], dials[s], diag[s], bsent[s], wire[s],
      closes[s], px[s], lg[s]>>

DialFailureContained(s) ==
    DialFailed(s) =>
        /\ dials[s] = 1
        /\ \A d \in Dirs : ~Started(s, d)
        /\ lg[s].pc = "none"
        /\ closes[s].t = 0
        /\ diag[s] = "sent" => wire[s].r = Banner \o DiagMsg(target[s])
        /\ hpc[s] = "returned" => diag[s] \in {"sent", "failed"} /\ closes[s].r = 1

DialFailureStep(s) ==
    (DialFailed(s)' /\ SessionState(s)' # SessionState(s)) =>
        /\ UNCHANGED <<procvars, chclosed, fs>>
        /\ \A t \in Sessions \ {s} : UNCHANGED SessionState(t)

C8_DialFailure ==
    /\ [](\A s \in Sessions : DialFailureContained(s))
    /\ [][\A s \in Sessions : DialFailureStep(s)]_vars

\* one session has returned after its diagnostic while another, accepted
\* after it, is relaying
C8_Witness ==
    \E s, t \in Sessions :
        /\ diag[s] = "sent" /\ hpc[s] = "returned"
        /\ hpc[t] = "wait" /\ \A d \in Dirs : Started(t, d)

(***************************************************************************)
(* C9.  With a banner configured and its write successful, the inbound     *)
(* connection receives the configured banner and one newline first, and    *)
(* nothing after it but relayed bytes or the dial diagnostic.              *)
(***************************************************************************)
BannerSucceeded(s) ==
    Len(cfg.banner) > 0 /\ hpc[s] \notin {"none", "banner"} /\ bsent[s] = Len(Banner)

AfterBanner(s) ==
    SubSeq(wire[s].r, Len(cfg.banner) + 2, Len(wire[s].r))

BannerFailed(s) ==
    hpc[s] \notin {"none", "banner"} /\ bsent[s] < Len(Banner)

C10_BannerBeforeProxies ==
    \A s \in Sessions :
        Len(Banner) > 0 =>
            /\ (\E d \in Dirs : Started(s, d)) =>
                  bsent[s] = Len(Banner) /\ IsPrefix(Banner, wire[s].r)
            /\ BannerFailed(s) => (\A d \in Dirs : ~Started(s, d)) /\ ~Dialled(s)

\* the banner write has failed and handleConn has returned
C10_Witness ==
    \E s \in Sessions :
        /\ Len(Banner) > 0 /\ BannerFailed(s) /\ hpc[s] = "returned"
        /\ closes[s].r = 1

(***************************************************************************)
(* C11.  The records of a replay file are all of one session, the one      *)
(* that created the file and whose logger holds it; a session whose        *)
(* openLogFile returned nil has no record in any file.                     *)
(***************************************************************************)
\* the sessions with a record in the file called name
Writers(name) == {fs[name][k].by : k \in 1 .. Len(fs[name])}

C11_OneSessionPerFile ==
    /\ \A name \in DOMAIN fs : \A s \in Writers(name) :
          /\ Writers(name) = {s}
          /\ lg[s].name = name
          /\ lg[s].f # "nil"
    /\ \A s, t \in Sessions :
          (s # t /\ lg[s].f # "nil" /\ lg[t].f # "nil") => lg[s].name # lg[t].name

\* two sessions at once: the first with a record in its file, the second
\* given the name of that file, its openLogFile failed, a packet handed off
C11_Witness ==
    \E s, t \in Sessions :
        /\ s # t /\ hpc[s] = "wait" /\ hpc[t] = "wait"
        /\ lg[s].name = lg[t].name
        /\ lg[s].f = "open" /\ Len(fs[lg[s].name]) > 0
        /\ lg[t].f = "nil" /\ lg[t].pc = "select"
        /\ \E d \in Dirs : px[t][d].read > 0 /\ px[t][d].pc # "log"

(***************************************************************************)
(* C12.  With -no4 and -no6 both given main never gets past the check of   *)
(* the flags: no listener is made, no bind is tried, no connection is      *)
(* accepted or handled, and the process ends with a fatal error, that of   *)
(* the flags unless the log directory could not be made before.            *)
(***************************************************************************)
BothDisabled == cfg.no4 /\ cfg.no6

NothingListened ==
    /\ mainpc \in {"mkdir", "flags"}
    /\ nlist = 0 /\ \A f \in Families : lst[f] = "off"
    /\ naccepted = 0 /\ nhandled = 0
    /\ exit \in {"none", "MkdirFatal", "BothDisabled"}

C12_BothDisabledIsFatal ==
    /\ [](BothDisabled => NothingListened)
    /\ BothDisabled ~> (exit \in {"MkdirFatal", "BothDisabled"})

\* the fatal error of the flags, the log directory made
C12_Witness ==
    BothDisabled /\ Logging /\ mainpc = "flags" /\ exit = "BothDisabled"

(***************************************************************************)
(* C13.  A direction one of whose writes has returned a non-temporary      *)
(* error reports on done and stops: it is sending on done or has left      *)
(* proxyBytes, and is never again reading, logging or writing.             *)
(***************************************************************************)
WriteFailed(s, d) == px[s][d].werr

C13_WriteErrorStopsDirection ==
    \A s \in Sessions, d \in Dirs :
        WriteFailed(s, d) => px[s][d].pc \in {"done", "end"}

(***************************************************************************)
(* C14.  A direction whose read failed with an error that is neither       *)
(* io.EOF nor "use of closed network connection" nor "connection reset by  *)
(* peer" reports on done before it ends: it is sending on done, or it has  *)
(* ended and handleConn has received a report.                             *)
(***************************************************************************)
OtherReadError(s, d) == px[s][d].why \in {"opother", "unknown"}

C14_OtherReadErrorReports ==
    \A s \in Sessions, d \in Dirs :
        OtherReadError(s, d) =>
            \/ px[s][d].pc = "done"
            \/ px[s][d].pc = "end" /\ hpc[s] # "wait"

(***************************************************************************)
(* C15.  main starts handleConn only with a connection a listener          *)
(* accepted, once for each: there are no more handlers than accepted       *)
(* connections, every handler has its connection, and none is started      *)
(* with the nil of a dead listener's channel.                              *)
(***************************************************************************)
C15_HandlersOnlyForAccepted ==
    /\ nhandled <= naccepted
    /\ \A s \in Sessions : hpc[s] # "none" => conn[s] \in Conns
    /\ ~nilh

(***************************************************************************)
(* C16.  logSession has returned only if handleConn has closed both        *)
(* channels, and then the file is not open and gets no more records of     *)
(* the session; and once both channels are closed logSession eventually    *)
(* returns, as long as the process runs.                                   *)
(***************************************************************************)
LoggerDone(s) == lg[s].pc = "done"

BothSinksClosed(s) == chclosed[s]["i"] /\ chclosed[s]["o"]

\* the records of session s in the files
RecordsBy(s) ==
    UNION {{<<name, k>> : k \in {j \in 1 .. Len(fs[name]) : fs[name][j].by = s}} :
              name \in DOMAIN fs}

C16_LoggerEndsWithBothSinks ==
    /\ [](\A s \in Sessions : LoggerDone(s) => BothSinksClosed(s) /\ lg[s].f # "open")
    /\ [][\A s \in Sessions : LoggerDone(s) => LoggerDone(s)' /\ RecordsBy(s)' = RecordsBy(s)]_vars
    /\ \A s \in Sessions : BothSinksClosed(s) ~> (LoggerDone(s) \/ ~Running)

\* logSession has returned, its file closed with a record of each direction
C16_Witness ==
    \E s \in Sessions :
        /\ LoggerDone(s) /\ lg[s].f = "closed" /\ ~lg[s].ioerr
        /\ \E j, k \in 1 .. Len(fs[lg[s].name]) :
              fs[lg[s].name][j].dc = "i" /\ fs[lg[s].name][k].dc = "o"

(***************************************************************************)
(* C17.  Startup ends in a fatal error only with both families disabled    *)
(* or with no listener bound: a bind that fails beside a listener that     *)
(* is bound does not end the process.                                      *)
(***************************************************************************)
StartupFatal == exit \in {"BothDisabled", "ListenFatal", "NoListeners"}

C17_OneBindFailureNotFatal ==
    StartupFatal => (BothDisabled \/ \A f \in Families : ~ListenerStarted(f))

(***************************************************************************)
(* C18.  No direction is at its "logc <- packet" on a channel handleConn   *)
(* has closed.                                                             *)
(***************************************************************************)
C18_NoSendOnClosedSink ==
    \A s \in Sessions, d \in Dirs : chclosed[s][d] => px[s][d].pc # "log"

(***************************************************************************)
(* C19.  Once handleConn of a session has returned, each of its            *)
(* directions eventually leaves proxyBytes, as long as the process runs.   *)
(***************************************************************************)
Returned(s) == hpc[s] = "returned"

Ended(s, d) == px[s][d].pc = "end"

C19_DirectionsEndAfterReturn ==
    \A s \in Sessions, d \in Dirs :
        (Returned(s) /\ Started(s, d)) ~> (Ended(s, d) \/ ~Running)

(***************************************************************************)
(* C20.  In a session whose handler is waiting on done, a direction at     *)
(* its "logc <- packet" eventually has its packet received, whether the    *)
(* logger has a file, has none because the open failed, or has closed it   *)
(* after a failed write; and the chunk is then written until the write     *)
(* loop ends.  This as long as the process runs and the handler waits.     *)
(***************************************************************************)
HandlerWaiting(s) == hpc[s] = "wait"

HandingOff(s, d) == px[s][d].pc = "log"

WritingOn(s, d) == px[s][d].pc = "write"

=============================================================================
